---- MODULE Spec2Model ----
(***************************************************************************)
(* Model of the payback crate (debt settlement): the balance graph, the    *)
(* two approximations (star_expand, greedy_satisfaction) and the three     *)
(* exact solvers (naive_all_partitioning, best_partition, patcas_dp), as   *)
(* dispatched by ProblemInstance::solve_with.                              *)
(*                                                                         *)
(* A participant (NamedNode) is a record [id, weight]; Graph::from(Vec of  *)
(* i64) names each node by its index, so the name is determined by the id  *)
(* and is not carried.  A Solution (Option of HashMap from Edge to f64) is *)
(* a record [kind, edges]: kind "none" is None, kind "some" is Some(map)   *)
(* with the map a set of entries [u, v, w] holding at most one entry per   *)
(* key (u, v), and kind "diverges" is a call that never returns (a panic,  *)
(* stack overflow or endless loop).                                        *)
(***************************************************************************)
EXTENDS Integers, Sequences, FiniteSets, TLC

\* Bounds of the checked inputs: balance lists of up to MaxLen participants
\* with balances in -MaxAbs..MaxAbs.
MaxLen == 5
MaxAbs == 2

Weights == (0 - MaxAbs)..MaxAbs

\* Bounds of the edge-record lists: up to MaxRecords records with amounts in
\* 1..MaxAmount between the participants of Names.
MaxRecords == 2
MaxAmount == 2
Names == {"A", "B", "C"}

\* Bound of the wide instances: up to MaxSide creditors and MaxSide debtors.
MaxSide == 129

VARIABLES
    vertices,        \* instance.g.vertices: the participants, in order
    method,          \* the SolvingMethods variant handed to solve_with
    result,          \* what solve_with returned
    pc,              \* "ready" | "loop" | "done"
    neg_vertices,    \* greedy_satisfaction: the debtor list
    pos_vertices,    \* greedy_satisfaction: the creditor list
    side_capacities, \* greedy_satisfaction: the residual
    sol,             \* greedy_satisfaction: the HashMap being filled
    names,           \* instance.g.vertices[k].name, in the order of vertices
    records,         \* the ((payer, payee), amount) records handed to Graph::from
    output,          \* what solution_string returned
    overflow_checks, \* the build profile: are arithmetic overflows checked (debug)
    stdout,          \* the lines the formatters have printed with println!
    dp_call          \* the last call of dp: its arguments, its value, the table after it

vars == <<vertices, method, result, pc, neg_vertices, pos_vertices, side_capacities, sol,
          names, records, output, overflow_checks, stdout, dp_call>>

\* What the solvers leave alone: names are not read by any solver.
ioVars == <<names, records, output, overflow_checks, stdout, dp_call>>

-----------------------------------------------------------------------------
(* Sequences helpers (Vec, iterators).                                     *)

RECURSIVE SumRange(_, _, _)
\* The sum of the weights of vs[lo..hi], halving the range.
SumRange(vs, lo, hi) ==
    IF lo > hi THEN 0
    ELSE IF lo = hi THEN vs[lo].weight
    ELSE LET mid == (lo + hi) \div 2
         IN  SumRange(vs, lo, mid) + SumRange(vs, mid + 1, hi)

\* iter().map(|v| v.weight).sum::<i64>()
SumWeights(vs) == SumRange(vs, 1, Len(vs))

Abs(x) == IF x < 0 THEN 0 - x ELSE x

RECURSIVE Concat(_)
\* flattening of a sequence of sequences
Concat(ss) == IF ss = <<>> THEN <<>> ELSE Head(ss) \o Concat(Tail(ss))

RECURSIVE Combinations(_, _)
\* itertools combinations(k): the k-element subsequences in lexicographic
\* order of positions.
Combinations(s, k) ==
    IF k = 0 THEN << <<>> >>
    ELSE IF Len(s) < k THEN <<>>
    ELSE LET withHead == Combinations(Tail(s), k - 1)
         IN  [x \in 1..Len(withHead) |-> <<Head(s)>> \o withHead[x]]
             \o Combinations(Tail(s), k)

\* itertools powerset(): all combinations by increasing size.
Powerset(s) == Concat([k \in 1..(Len(s) + 1) |-> Combinations(s, k - 1)])

Contains(s, x) == \E k \in 1..Len(s) : s[k] = x

-----------------------------------------------------------------------------
(* graph.rs                                                                *)

\* Graph::new via From<Vec<i64>>: dense ids 0..n-1 in list order.
GraphNew(ws) == [k \in 1..Len(ws) |-> [id |-> k - 1, weight |-> ws[k]]]

\* usize::to_string for the indices a bounded graph has.
IdToString(id) == <<"0", "1", "2", "3", "4", "5", "6", "7">>[id + 1]

\* Graph::from(Vec<i64>): the names are the positional indices as strings.
IndexNames(n) == [k \in 1..n |-> IdToString(k - 1)]

\* impl From<Vec<((String, String), i64)>>: value.into_iter().collect() into
\* a HashMap keyed by (payer, payee); a later record with the same key
\* replaces the earlier one.
RECURSIVE CollectRecords(_, _)
CollectRecords(map, recs) ==
    IF recs = <<>> THEN map
    ELSE LET r == Head(recs)
             key == <<r.from, r.to>>
         IN  CollectRecords([k \in DOMAIN map \cup {key} |->
                                IF k = key THEN r.weight ELSE map[k]],
                            Tail(recs))

\* unique_v: every name that occurs in a key.
UniqueNames(map) == {k[1] : k \in DOMAIN map} \cup {k[2] : k \in DOMAIN map}

\* value.get(&(u, v)).unwrap_or(&0)
GetOrZero(map, u, v) == IF <<u, v>> \in DOMAIN map THEN map[<<u, v>>] ELSE 0

\* What the keys (u, x), u in S, add to x.
RECURSIVE SumInto(_, _, _)
SumInto(map, S, x) ==
    IF S = {} THEN 0
    ELSE LET u == CHOOSE y \in S : TRUE
         IN  GetOrZero(map, u, x) + SumInto(map, S \ {u}, x)

\* What the keys (x, v), v in S, subtract from x.
RECURSIVE SumOutOf(_, _, _)
SumOutOf(map, x, S) ==
    IF S = {} THEN 0
    ELSE LET v == CHOOSE y \in S : TRUE
         IN  GetOrZero(map, x, v) + SumOutOf(map, x, S \ {v})

\* name_weight_tup after the loop over permutations(2) of unique_v: every
\* ordered pair (u, v) of different names subtracts the weight of key (u, v)
\* from u and adds it to v.
NameWeights(map) ==
    LET unique_v == UniqueNames(map)
    IN  [x \in unique_v |->
            SumInto(map, unique_v \ {x}, x) - SumOutOf(map, x, unique_v \ {x})]

\* The orders in which a HashMap over the keys S can be iterated.
IterationOrders(S) ==
    {o \in [1..Cardinality(S) -> S] : \A x \in S : \E k \in DOMAIN o : o[k] = x}

\* No solution_string call has returned yet.
NoOutput ==
    [format |-> "unset", kind |-> "unset", message |-> "", nodes |-> <<>>, lines |-> <<>>]

\* get_average_vertex_weight() = sum as f64 / len as f64.  With no vertices
\* this is 0.0/0.0 = NaN, written "NaN"; otherwise only "is it zero" is
\* observed, and sum/len is zero exactly when the sum is.
get_average_vertex_weight(vs) ==
    IF Len(vs) = 0 THEN "NaN" ELSE IF SumWeights(vs) = 0 THEN "zero" ELSE "nonzero"

\* impl Ord for NamedNode: cmp calls partial_cmp, and partial_cmp of
\* impl PartialOrd for NamedNode calls cmp again: neither has a base case,
\* so a comparison of two nodes never returns.
NamedNode_cmp(a, b) == "diverges"

NoNode == [id |-> 0 - 1, weight |-> 0]

RECURSIVE IterMaxFrom(_, _)
\* Iterator::max is reduce(|x, y| match cmp(&x, &y) { Greater => x, _ => y }).
IterMaxFrom(best, rest) ==
    IF rest = <<>> THEN [kind |-> "some", node |-> best]
    ELSE LET c == NamedNode_cmp(best, Head(rest))
         IN  IF c = "diverges" THEN [kind |-> "diverges", node |-> NoNode]
             ELSE IterMaxFrom(IF c = "Greater" THEN best ELSE Head(rest), Tail(rest))

\* vertices.iter().max(): None on an empty list, the first element without
\* any comparison on a one-element list.
IterMax(vs) ==
    IF vs = <<>> THEN [kind |-> "none", node |-> NoNode]
    ELSE IterMaxFrom(Head(vs), Tail(vs))

-----------------------------------------------------------------------------
(* probleminstance.rs: Solution values and is_solvable                      *)

None == [kind |-> "none", edges |-> {}]
Diverges == [kind |-> "diverges", edges |-> {}]
\* unreachable!(..) executed: the call panics.
Panics == [kind |-> "panics", edges |-> {}]
Some(m) == [kind |-> "some", edges |-> m]

\* A faulty insert: the edge is recorded from the creditor to itself.
MapInsertSelfLoop(m, u, v, w) ==
    {t \in m : ~(t.u = u /\ t.v = u)} \cup {[u |-> u, v |-> u, w |-> w]}

\* A faulty insert: the reversed edge is recorded next to the edge.
MapInsertBothWays(m, u, v, w) ==
    m \cup {[u |-> u, v |-> v, w |-> w], [u |-> v, v |-> u, w |-> w]}

\* HashMap::insert: the entry for key (u, v) is replaced.
MapInsert(m, u, v, w) ==
    {t \in m : ~(t.u = u /\ t.v = v)} \cup {[u |-> u, v |-> v, w |-> w]}

\* HashMap::extend: entries of m2 replace entries of m1 with the same key.
MapExtend(m1, m2) ==
    {t \in m1 : ~(\E t2 \in m2 : t2.u = t.u /\ t2.v = t.v)} \cup m2

\* avg != 0_f64 is true for NaN, so a graph without vertices is not solvable.
is_solvable(vs) == get_average_vertex_weight(vs) = "zero"

\* sum(|weight|) / 2
optimal_transaction_amount(vs) ==
    SumWeights([k \in 1..Len(vs) |-> [id |-> vs[k].id, weight |-> Abs(vs[k].weight)]]) \div 2

-----------------------------------------------------------------------------
(* approximation.rs: star_expand                                           *)

\* The map built from every vertex u != v: Edge{u, v} with u.weight when
\* u.weight > 0, Edge{v, u} with -u.weight otherwise (a zero weight too).
StarEdges(vs, v) ==
    { IF vs[k].weight > 0
        THEN [u |-> vs[k].id, v |-> v.id, w |-> vs[k].weight]
        ELSE [u |-> v.id, v |-> vs[k].id, w |-> 0 - vs[k].weight]
      : k \in {x \in 1..Len(vs) : vs[x] # v} }

star_expand(vs) ==
    IF ~is_solvable(vs) THEN None
    ELSE LET v_max == IterMax(vs)
         IN  IF v_max.kind = "none" THEN None
             ELSE IF v_max.kind = "diverges" THEN Diverges
             ELSE Some(StarEdges(vs, v_max.node))

-----------------------------------------------------------------------------
(* approximation.rs: greedy_satisfaction                                   *)

\* iter().partition(|v| v.weight < 0): debtors, and everything else.
NegOf(vs) == SelectSeq(vs, LAMBDA x : x.weight < 0)
PosOf(vs) == SelectSeq(vs, LAMBDA x : ~(x.weight < 0))

\* side_capacities before the loop.
InitialCapacity(neg, pos) ==
    LET c0 == IF neg # <<>> THEN Head(neg).weight ELSE 0
    IN  IF pos # <<>> /\ Head(pos).weight > Abs(c0) THEN Head(pos).weight ELSE c0

\* One iteration of the while loop on the state g = [neg, pos, cap, sol].
GreedyLess(g) ==
    LET n == Head(g.neg)
        p == Head(g.pos)
    IN  IF p.weight <= 0 - g.cap
        THEN [neg |-> IF g.cap + p.weight = 0 THEN Tail(g.neg) ELSE g.neg,
              pos |-> Tail(g.pos),
              cap |-> g.cap + p.weight,
              sol |-> MapInsert(g.sol, p.id, n.id, p.weight)]
        ELSE [neg |-> Tail(g.neg),
              pos |-> g.pos,
              cap |-> g.cap + p.weight,
              sol |-> MapInsert(g.sol, p.id, n.id, g.cap)]

GreedyEqual(g) == [g EXCEPT !.cap = Head(g.pos).weight]

GreedyGreater(g) ==
    LET n == Head(g.neg)
        p == Head(g.pos)
    IN  IF 0 - n.weight <= g.cap
        THEN [neg |-> Tail(g.neg),
              pos |-> IF g.cap + n.weight = 0 THEN Tail(g.pos) ELSE g.pos,
              cap |-> g.cap + n.weight,
              sol |-> MapInsert(g.sol, p.id, n.id, Abs(n.weight))]
        ELSE [neg |-> g.neg,
              pos |-> Tail(g.pos),
              cap |-> g.cap + n.weight,
              sol |-> MapInsert(g.sol, p.id, n.id, g.cap)]

GreedyStep(g) ==
    IF g.cap < 0 THEN GreedyLess(g)
    ELSE IF g.cap = 0 THEN GreedyEqual(g)
    ELSE GreedyGreater(g)

LoopCondition(g) == g.neg # <<>> /\ g.pos # <<>>

RECURSIVE GreedyRun(_)
\* The while loop run to its end.  An iteration that leaves the state as it
\* found it is repeated for ever; every other iteration removes a vertex
\* or makes the residual nonzero, so no other endless run exists.
GreedyRun(g) ==
    IF ~LoopCondition(g) THEN Some(g.sol)
    ELSE IF GreedyStep(g) = g THEN Diverges
    ELSE GreedyRun(GreedyStep(g))

GreedyStart(vs) ==
    [neg |-> NegOf(vs), pos |-> PosOf(vs),
     cap |-> InitialCapacity(NegOf(vs), PosOf(vs)), sol |-> {}]

greedy_satisfaction(vs) ==
    IF ~is_solvable(vs) THEN None ELSE GreedyRun(GreedyStart(vs))

\* approx_solver: &dyn Fn(&ProblemInstance) -> Solution
Approximations == {"star_expand", "greedy_satisfaction"}
approx_solver(a, vs) ==
    IF a = "star_expand" THEN star_expand(vs) ELSE greedy_satisfaction(vs)

-----------------------------------------------------------------------------
(* exact_partitioning.rs                                                   *)

\* A faulty enumeration: only the partitioning into single items.
SingletonsOnly(head, rest) == <<head \o [k \in 1..Len(rest) |-> <<rest[k]>>]>>

RECURSIVE iterate_all_partitionings(_, _)
\* The partitionings handed to f, in call order: the first item of rest is
\* appended to each block of head in turn, then opens a block of its own.
iterate_all_partitionings(head, rest) ==
    IF rest = <<>> THEN <<head>>
    ELSE LET first == Head(rest)
             tail == Tail(rest)
         IN  Concat([i \in 1..Len(head) |->
                        iterate_all_partitionings(
                            [head EXCEPT ![i] = Append(@, first)], tail)])
             \o iterate_all_partitionings(Append(head, <<first>>), tail)

collect_all_partitionigns(items) == iterate_all_partitionings(<<>>, items)

\* sort_by_key(|a| Reverse(a.len())): stable, most blocks first.
SortByBlocksDesc(ps, n) ==
    Concat([k \in 1..(n + 1) |-> SelectSeq(ps, LAMBDA x : Len(x) = n + 1 - k)])

RECURSIVE PartitionSolverFrom(_, _, _)
PartitionSolverFrom(acc, blocks, a) ==
    IF blocks = <<>> THEN Some(acc)
    ELSE LET r == approx_solver(a, Head(blocks))
         IN  IF r.kind = "some"
             THEN PartitionSolverFrom(MapExtend(acc, r.edges), Tail(blocks), a)
             ELSE r  \* None: return None; a call that never returns

partition_solver(partitioning, a) == PartitionSolverFrom({}, partitioning, a)

\* iter().find_map(|x| partition_solver(x, approx_solver)): the result of the
\* first partitioning whose partition_solver call does not return None; the
\* partitionings after it are never tried.
FindMapSolver(ps, a) ==
    LET hits == {k \in 1..Len(ps) : partition_solver(ps[k], a).kind # "none"}
    IN  IF hits = {} THEN None
        ELSE partition_solver(ps[CHOOSE k \in hits : \A m \in hits : k <= m], a)

naive_all_partitioning(vs, a) ==
    FindMapSolver(SortByBlocksDesc(collect_all_partitionigns(vs), Len(vs)), a)

-----------------------------------------------------------------------------
(* tree_bases.rs                                                           *)

AllNonZero(s) == \A k \in 1..Len(s) : s[k].weight # 0

zero_sum_subsets(vs) ==
    SelectSeq(Powerset(vs), LAMBDA s : SumWeights(s) = 0 /\ AllNonZero(s))

RECURSIVE FilterSubsets(_, _)
\* The filter closure of best_partition_rec run over the subsets in order,
\* on the state f = [best_branching, remove_verts, filtered].
FilterSubsets(subsets, f) ==
    IF subsets = <<>> THEN f
    ELSE LET s == Head(subsets)
             u == s[1]
             v == s[Len(s)]
         IN  IF Len(s) = 0 THEN FilterSubsets(Tail(subsets), f)
             ELSE IF Len(s) = 1
             THEN FilterSubsets(Tail(subsets), [f EXCEPT !.remove_verts = Append(@, u)])
             ELSE IF Len(s) = 2
             THEN IF ~Contains(f.remove_verts, u) /\ ~Contains(f.remove_verts, v)
                  THEN FilterSubsets(Tail(subsets),
                           [f EXCEPT !.best_branching = Append(@, <<u, v>>),
                                     !.remove_verts = @ \o <<u, v>>])
                  ELSE FilterSubsets(Tail(subsets), f)
             ELSE FilterSubsets(Tail(subsets), [f EXCEPT !.filtered = Append(@, s)])

\* A faulty partitioning: the whole instance and an empty block.
PartitionWithEmptyBlock(vs) == <<vs, <<>>>>

RECURSIVE best_partition_rec(_)
RECURSIVE FoldBranches(_, _, _, _)

\* filtered_subsets.into_iter().fold(vec![], ..): each candidate s is tried
\* on the vertices outside s and outside remove_verts; a result with at
\* least as many blocks replaces the accumulator.
FoldBranches(filtered, acc, vs, remove_verts) ==
    IF filtered = <<>> THEN acc
    ELSE LET s == Head(filtered)
             verts == SelectSeq(vs, LAMBDA x :
                         ~Contains(s, x) /\ ~Contains(remove_verts, x))
             res == Append(best_partition_rec(verts), s)
         IN  IF Len(res) >= Len(acc)
             THEN FoldBranches(Tail(filtered), res, vs, remove_verts)
             ELSE FoldBranches(Tail(filtered), acc, vs, remove_verts)

best_partition_rec(vs) ==
    IF vs = <<>> THEN <<>>
    ELSE LET f == FilterSubsets(zero_sum_subsets(vs),
                     [best_branching |-> <<>>, remove_verts |-> <<>>, filtered |-> <<>>])
         IN  IF Len(f.remove_verts) = Len(vs) THEN f.best_branching
             ELSE f.best_branching \o FoldBranches(f.filtered, <<>>, vs, f.remove_verts)

RECURSIVE SolveBlocks(_, _, _)
\* solution_partition.into_iter().map(approx_solver).for_each(extend), as in
\* best_partition and patcas_dp: a None block reaches unreachable!().
SolveBlocks(acc, blocks, a) ==
    IF blocks = <<>> THEN Some(acc)
    ELSE LET r == approx_solver(a, Head(blocks))
         IN  IF r.kind = "some" THEN SolveBlocks(MapExtend(acc, r.edges), Tail(blocks), a)
             ELSE IF r.kind = "none" THEN Panics
             ELSE r

best_partition(vs, a) ==
    IF ~is_solvable(vs) THEN None
    ELSE SolveBlocks({}, best_partition_rec(vs), a)

-----------------------------------------------------------------------------
(* dynamic_program.rs                                                      *)

\* The width of the u128 masks.
MaskBits == 128

RECURSIVE OneIndicesFrom(_, _)
OneIndicesFrom(n, i) ==
    IF n = 0 THEN <<>>
    ELSE (IF n % 2 = 1 THEN <<i>> ELSE <<>>) \o OneIndicesFrom(n \div 2, i + 1)

\* one_indices: the positions of the one bits of num, lowest first.
one_indices(num) == OneIndicesFrom(num, 0)

RECURSIVE Pow2(_)
Pow2(k) == IF k = 0 THEN 1 ELSE 2 * Pow2(k - 1)

RECURSIVE SumShifts(_)
SumShifts(indices) ==
    IF indices = <<>> THEN 0 ELSE Pow2(Head(indices)) + SumShifts(Tail(indices))

\* expand_number: assert!(indices.len() <= 128), then the sum of 1 << index;
\* -1 stands for the failed assertion.
expand_number(indices) ==
    IF Len(indices) > MaskBits THEN 0 - 1 ELSE SumShifts(indices)

RECURSIVE BitXor(_, _)
\* i ^ a on u128
BitXor(x, y) ==
    IF x = 0 THEN y
    ELSE IF y = 0 THEN x
    ELSE (((x % 2) + (y % 2)) % 2) + (2 * BitXor(x \div 2, y \div 2))

RECURSIVE count_ones(_)
count_ones(x) == IF x = 0 THEN 0 ELSE (x % 2) + count_ones(x \div 2)

RECURSIVE NumberWeightFrom(_, _, _)
NumberWeightFrom(n, i, weights) ==
    IF n = 0 THEN 0
    ELSE (IF n % 2 = 1 THEN weights[i + 1] ELSE 0)
         + NumberWeightFrom(n \div 2, i + 1, weights)

\* number_weight: the sum of the weights at the one bits of num.
number_weight(num, weights) == NumberWeightFrom(num, 0, weights)

\* A faulty subset iterator: the mask itself is its only submask.
WholeMaskOnly(num) == IF num = 0 THEN <<>> ELSE <<num>>

\* number_and_subset: the nonzero submasks of num in powerset order.
number_and_subset(num) ==
    LET subsets == Powerset(one_indices(num))
    IN  SelectSeq([k \in 1..Len(subsets) |-> expand_number(subsets[k])],
                  LAMBDA n : n # 0)

\* Option<usize> and Option<(u128, u128)>
NoValue == [some |-> FALSE, x |-> 0]
NoSplit == [some |-> FALSE, a |-> 0, b |-> 0]

\* cartesian_product: every b for the first a, then every b for the next.
PairsOf(i, j) ==
    LET sa == number_and_subset(i)
        sb == number_and_subset(j)
    IN  Concat([x \in 1..Len(sa) |-> [y \in 1..Len(sb) |-> <<sa[x], sb[y]>>]])

RECURSIVE dp(_, _, _, _)
RECURSIVE DpFold(_, _, _, _, _, _)

\* The flat_map / min_by of dp over the pairs (a, b), threading the table
\* through the recursive calls; best is the first minimum so far.
DpFold(pairs, i, j, weights, table, best) ==
    IF pairs = <<>> THEN [best |-> best, table |-> table]
    ELSE LET a == Head(pairs)[1]
             b == Head(pairs)[2]
             r == dp(BitXor(i, a), BitXor(j, b), weights, table)
             cand == [some |-> TRUE,
                      x |-> r.value.x + count_ones(a) + count_ones(b) - 1,
                      split |-> IF i # a /\ j # b
                                THEN [some |-> TRUE, a |-> a, b |-> b]
                                ELSE NoSplit]
         IN  IF ~r.value.some
             THEN DpFold(Tail(pairs), i, j, weights, r.table, best)
             ELSE IF ~best.some \/ cand.x < best.x
             THEN DpFold(Tail(pairs), i, j, weights, r.table, cand)
             ELSE DpFold(Tail(pairs), i, j, weights, r.table, best)

\* dp returns [value, table]: the Option<usize> and the table afterwards.
dp(i, j, weights, table) ==
    IF i = 0 /\ j = 0 THEN [value |-> [some |-> TRUE, x |-> 0], table |-> table]
    ELSE IF <<i, j>> \in DOMAIN table
    THEN [value |-> [some |-> TRUE, x |-> table[<<i, j>>].x], table |-> table]
    ELSE IF number_weight(i, weights) # 0 - number_weight(j, weights)
    THEN [value |-> NoValue, table |-> table]
    ELSE LET f == DpFold(PairsOf(i, j), i, j, weights, table,
                         [some |-> FALSE, x |-> 0, split |-> NoSplit])
         IN  IF f.best.some
             THEN [value |-> [some |-> TRUE, x |-> f.best.x],
                   table |-> (<<i, j>> :> [x |-> f.best.x, split |-> f.best.split])
                             @@ f.table]
             ELSE [value |-> NoValue, table |-> f.table]

\* A faulty extraction: the root is emitted as one block.
ExtractRootOnly(i, j, table, partitions) == Append(partitions, i + j)

RECURSIVE table_extract_rec(_, _, _, _)
\* _table_extract_rec: the partitions vector after the call.
table_extract_rec(i, j, table, partitions) ==
    IF i = 0 \/ j = 0 THEN partitions
    ELSE IF <<i, j>> \notin DOMAIN table THEN partitions
    ELSE LET e == table[<<i, j>>]
         IN  IF ~e.split.some THEN Append(partitions, i + j)
             ELSE table_extract_rec(BitXor(i, e.split.a), BitXor(j, e.split.b), table,
                      table_extract_rec(e.split.a, e.split.b, table, partitions))

table_extract_partitioning(i, j, table) == table_extract_rec(i, j, table, <<>>)

RECURSIVE table_extract_misses(_, _, _)
\* Does _table_extract_rec reach its last arm, a table.get that finds nothing?
table_extract_misses(i, j, table) ==
    IF i = 0 \/ j = 0 THEN FALSE
    ELSE IF <<i, j>> \notin DOMAIN table THEN TRUE
    ELSE LET e == table[<<i, j>>]
         IN  IF ~e.split.some THEN FALSE
             ELSE \/ table_extract_misses(e.split.a, e.split.b, table)
                  \/ table_extract_misses(BitXor(i, e.split.a), BitXor(j, e.split.b), table)

EmptyTable == [k \in {} |-> 0]

\* index_to_node: the nonzero vertices, enumerated from 0.
NonZeroOf(vs) == SelectSeq(vs, LAMBDA x : x.weight # 0)
WeightsOf(nz) == [k \in 1..Len(nz) |-> nz[k].weight]
LeftIndices(nz) ==
    LET idx == SelectSeq([k \in 1..Len(nz) |-> k], LAMBDA k : nz[k].weight >= 0)
    IN  [k \in 1..Len(idx) |-> idx[k] - 1]
RightIndices(nz) ==
    LET idx == SelectSeq([k \in 1..Len(nz) |-> k], LAMBDA k : ~(nz[k].weight >= 0))
    IN  [k \in 1..Len(idx) |-> idx[k] - 1]

\* dp has not been called.
NoCall == [i |-> 0, j |-> 0, weights |-> <<>>, value |-> NoValue, table |-> EmptyTable]

\* The table after dp(n_left, n_right, ..) and the partitioning read off it.
DpTable(nz) ==
    dp(expand_number(LeftIndices(nz)), expand_number(RightIndices(nz)),
       WeightsOf(nz), EmptyTable).table

DpPartition(nz) ==
    LET masks == table_extract_partitioning(expand_number(LeftIndices(nz)),
                     expand_number(RightIndices(nz)), DpTable(nz))
    IN  [k \in 1..Len(masks) |->
            LET ix == one_indices(masks[k])
            IN  [m \in 1..Len(ix) |-> nz[ix[m] + 1]]]

patcas_dp(vs, a) ==
    IF ~is_solvable(vs) THEN None
    ELSE IF Len(LeftIndices(NonZeroOf(vs))) > MaskBits
              \/ Len(RightIndices(NonZeroOf(vs))) > MaskBits THEN Panics
    ELSE SolveBlocks({}, DpPartition(NonZeroOf(vs)), a)

\* What expand_number does with its indices besides the sum: the assertion
\* indices.len() <= 128 fails ("assert"); otherwise 1 << index with an index
\* of 128 or more overflows the u128 shift, which panics where overflows are
\* checked ("overflow") and takes the shift amount modulo 128 where they are
\* not ("wrapped"); otherwise every bit is a bit of its own ("ok").
ExpandOutcome(indices, checks) ==
    IF Len(indices) > MaskBits THEN "assert"
    ELSE IF \E k \in 1..Len(indices) : indices[k] >= MaskBits
    THEN (IF checks THEN "overflow" ELSE "wrapped")
    ELSE "ok"

\* n_left, then n_right (lines 53-54): "panics" when either call panics,
\* "wrapped" when both return and an index was taken modulo 128, else "ok".
PatcasMasks(vs, checks) ==
    LET nz == NonZeroOf(vs)
        l == ExpandOutcome(LeftIndices(nz), checks)
        r == ExpandOutcome(RightIndices(nz), checks)
    IN  IF l \in {"assert", "overflow"} \/ r \in {"assert", "overflow"} THEN "panics"
        ELSE IF l = "wrapped" \/ r = "wrapped" THEN "wrapped"
        ELSE "ok"

-----------------------------------------------------------------------------
(* probleminstance.rs: solve_with, and the state machines                  *)

SolvingMethods ==
    {"ApproxStarExpand", "ApproxGreedySatisfaction",
     "PartitioningStarExpand", "PartitioningGreedySatisfaction",
     "BranchingPartitionStarExpand", "BranchingPartitionGreedySatisfaction",
     "DPStarExpand", "DPGreedySatisfaction"}

\* The balance lists a caller can hand to Graph::from(Vec<i64>).
Inputs == UNION {[1..k -> Weights] : k \in 0..MaxLen}

Pending == [kind |-> "pending", edges |-> {}]

Init ==
    /\ vertices \in {GraphNew(ws) : ws \in Inputs}
    /\ method = "unset"
    /\ result = Pending
    /\ pc = "ready"
    /\ neg_vertices = <<>>
    /\ pos_vertices = <<>>
    /\ side_capacities = 0
    /\ sol = {}
    /\ names = IndexNames(Len(vertices))
    /\ records = <<>>
    /\ output = NoOutput
    /\ stdout = <<>>
    /\ dp_call = NoCall
    /\ overflow_checks = FALSE

loopVars == <<neg_vertices, pos_vertices, side_capacities, sol>>

\* instance.solve_with(method), run to its end: one action per match arm.
ApproxStarExpand ==
    /\ pc = "ready"
    /\ method' = "ApproxStarExpand"
    /\ result' = star_expand(vertices)
    /\ pc' = "done"
    /\ UNCHANGED <<ioVars, vertices, loopVars>>

ApproxGreedySatisfaction ==
    /\ pc = "ready"
    /\ method' = "ApproxGreedySatisfaction"
    /\ result' = greedy_satisfaction(vertices)
    /\ pc' = "done"
    /\ UNCHANGED <<ioVars, vertices, loopVars>>

PartitioningStarExpand ==
    /\ pc = "ready"
    /\ method' = "PartitioningStarExpand"
    /\ result' = naive_all_partitioning(vertices, "star_expand")
    /\ pc' = "done"
    /\ UNCHANGED <<ioVars, vertices, loopVars>>

PartitioningGreedySatisfaction ==
    /\ pc = "ready"
    /\ method' = "PartitioningGreedySatisfaction"
    /\ result' = naive_all_partitioning(vertices, "greedy_satisfaction")
    /\ pc' = "done"
    /\ UNCHANGED <<ioVars, vertices, loopVars>>

BranchingPartitionStarExpand ==
    /\ pc = "ready"
    /\ method' = "BranchingPartitionStarExpand"
    /\ result' = best_partition(vertices, "star_expand")
    /\ pc' = "done"
    /\ UNCHANGED <<ioVars, vertices, loopVars>>

BranchingPartitionGreedySatisfaction ==
    /\ pc = "ready"
    /\ method' = "BranchingPartitionGreedySatisfaction"
    /\ result' = best_partition(vertices, "greedy_satisfaction")
    /\ pc' = "done"
    /\ UNCHANGED <<ioVars, vertices, loopVars>>

DPStarExpand ==
    /\ pc = "ready"
    /\ method' = "DPStarExpand"
    /\ result' = patcas_dp(vertices, "star_expand")
    /\ pc' = "done"
    /\ UNCHANGED <<ioVars, vertices, loopVars>>

DPGreedySatisfaction ==
    /\ pc = "ready"
    /\ method' = "DPGreedySatisfaction"
    /\ result' = patcas_dp(vertices, "greedy_satisfaction")
    /\ pc' = "done"
    /\ UNCHANGED <<ioVars, vertices, loopVars>>

Next ==
    \/ ApproxStarExpand
    \/ ApproxGreedySatisfaction
    \/ PartitioningStarExpand
    \/ PartitioningGreedySatisfaction
    \/ BranchingPartitionStarExpand
    \/ BranchingPartitionGreedySatisfaction
    \/ DPStarExpand
    \/ DPGreedySatisfaction

Spec == Init /\ [][Next]_vars

-----------------------------------------------------------------------------
(* greedy_satisfaction, one step per loop test and per match arm          *)

LoopState ==
    [neg |-> neg_vertices, pos |-> pos_vertices, cap |-> side_capacities, sol |-> sol]

SetLoopState(g) ==
    /\ neg_vertices' = g.neg
    /\ pos_vertices' = g.pos
    /\ side_capacities' = g.cap
    /\ sol' = g.sol

\* The is_solvable check failed: return None.
GreedyUnsolvable ==
    /\ pc = "ready"
    /\ ~is_solvable(vertices)
    /\ method' = "ApproxGreedySatisfaction"
    /\ result' = None
    /\ pc' = "done"
    /\ UNCHANGED <<ioVars, vertices, loopVars>>

\* The partition into the two lists and the first residual.
GreedyEnter ==
    /\ pc = "ready"
    /\ is_solvable(vertices)
    /\ method' = "ApproxGreedySatisfaction"
    /\ SetLoopState(GreedyStart(vertices))
    /\ pc' = "loop"
    /\ UNCHANGED <<ioVars, vertices, result>>

\* The while condition holds: enter the body and match on side_capacities.
LoopTest ==
    /\ pc = "loop"
    /\ LoopCondition(LoopState)
    /\ pc' = "match"
    /\ UNCHANGED <<ioVars, vertices, method, result, loopVars>>

LoopLess ==
    /\ pc = "match"
    /\ side_capacities < 0
    /\ SetLoopState(GreedyLess(LoopState))
    /\ pc' = "loop"
    /\ UNCHANGED <<ioVars, vertices, method, result>>

LoopEqual ==
    /\ pc = "match"
    /\ side_capacities = 0
    /\ SetLoopState(GreedyEqual(LoopState))
    /\ pc' = "loop"
    /\ UNCHANGED <<ioVars, vertices, method, result>>

LoopGreater ==
    /\ pc = "match"
    /\ side_capacities > 0
    /\ SetLoopState(GreedyGreater(LoopState))
    /\ pc' = "loop"
    /\ UNCHANGED <<ioVars, vertices, method, result>>

\* The loop condition failed: return Some(sol).
GreedyReturn ==
    /\ pc = "loop"
    /\ ~LoopCondition(LoopState)
    /\ result' = Some(sol)
    /\ pc' = "done"
    /\ UNCHANGED <<ioVars, vertices, method, loopVars>>

GreedyNext ==
    \/ GreedyUnsolvable
    \/ GreedyEnter
    \/ LoopTest
    \/ LoopLess
    \/ LoopEqual
    \/ LoopGreater
    \/ GreedyReturn

\* The loop is sequential code: an iteration that can run does run.
GreedySpec == Init /\ [][GreedyNext]_vars /\ WF_vars(GreedyNext)

-----------------------------------------------------------------------------
(* Graph::from(Vec<((String, String), i64)>): a graph from edge records    *)

Record == [from : Names, to : Names, weight : 1..MaxAmount]

RecordLists == UNION {[1..k -> Record] : k \in 0..MaxRecords}

BuildInit ==
    /\ records \in RecordLists
    /\ vertices = <<>>
    /\ names = <<>>
    /\ method = "unset"
    /\ result = Pending
    /\ pc = "ready"
    /\ neg_vertices = <<>>
    /\ pos_vertices = <<>>
    /\ side_capacities = 0
    /\ sol = {}
    /\ output = NoOutput
    /\ stdout = <<>>
    /\ dp_call = NoCall
    /\ overflow_checks = FALSE

\* The whole constructor: collect into the HashMap, reduce to the net
\* weights, then Graph::from(HashMap<String, i64>) = Graph::new(keys, values)
\* in the map's iteration order, which the program does not control.
FromEdgeRecords ==
    /\ pc = "ready"
    /\ LET name_weight_tup == NameWeights(CollectRecords(<<>>, records))
       IN  \E order \in IterationOrders(DOMAIN name_weight_tup) :
              /\ names' = order
              /\ vertices' = GraphNew([k \in 1..Len(order) |-> name_weight_tup[order[k]]])
    /\ pc' = "built"
    /\ UNCHANGED <<records, method, result, loopVars, output, overflow_checks, stdout, dp_call>>

BuildNext == FromEdgeRecords

BuildSpec == BuildInit /\ [][BuildNext]_vars

-----------------------------------------------------------------------------
(* dynamic_program.rs: one call of dp on an empty table                    *)

\* The masks below num, the empty one included.
SubMasks(num) == {0} \cup {number_and_subset(num)[k] : k \in 1..Len(number_and_subset(num))}

\* dp(i, j, &weights, table) on a fresh table, as patcas_dp and test_dp call
\* it: the weights are those of the nonzero vertices, one mask lies on the
\* non-negative side and the other on the negative side.
DpCall ==
    /\ pc = "ready"
    /\ LET nz == NonZeroOf(vertices)
           weights == WeightsOf(nz)
       IN  \E a \in SubMasks(expand_number(LeftIndices(nz))),
              b \in SubMasks(expand_number(RightIndices(nz))),
              swap \in BOOLEAN :
              LET i == IF swap THEN b ELSE a
                  j == IF swap THEN a ELSE b
                  r == dp(i, j, weights, EmptyTable)
              IN  dp_call' = [i |-> i, j |-> j, weights |-> weights,
                               value |-> r.value, table |-> r.table]
    /\ pc' = "dp"
    /\ UNCHANGED <<vertices, names, records, method, result, loopVars, output,
                   overflow_checks, stdout>>

DpNext == DpCall

DpSpec == Init /\ [][DpNext]_vars

-----------------------------------------------------------------------------
(* graph.rs: the three constructors an instance is built with              *)

NodeRecord == [name : Names, weight : Weights]

NodeRecordLists == UNION {[1..k -> NodeRecord] : k \in 0..MaxRecords}

\* Nothing has been read yet.
ConstructInit ==
    /\ records = <<>>
    /\ vertices = <<>>
    /\ names = <<>>
    /\ method = "unset"
    /\ result = Pending
    /\ pc = "ready"
    /\ neg_vertices = <<>>
    /\ pos_vertices = <<>>
    /\ side_capacities = 0
    /\ sol = {}
    /\ output = NoOutput
    /\ stdout = <<>>
    /\ dp_call = NoCall
    /\ overflow_checks = FALSE

\* Graph::from(Vec<i64>) = Graph::new(indices as strings, value).
FromBalances ==
    /\ pc = "ready"
    /\ \E value \in Inputs :
          /\ names' = IndexNames(Len(value))
          /\ vertices' = GraphNew(value)
    /\ pc' = "built"
    /\ UNCHANGED <<records, method, result, loopVars, output, overflow_checks, stdout, dp_call>>

\* Graph::from(Vec<(String, i64)>) = Graph::new(the names, the weights), one
\* vertex per record in the order of the list.
FromNameBalances ==
    /\ pc = "ready"
    /\ \E value \in NodeRecordLists :
          /\ records' = value
          /\ names' = [k \in 1..Len(value) |-> value[k].name]
          /\ vertices' = GraphNew([k \in 1..Len(value) |-> value[k].weight])
    /\ pc' = "built"
    /\ UNCHANGED <<method, result, loopVars, output, overflow_checks, stdout, dp_call>>

\* Graph::from(Vec<((String, String), i64)>) on a list read here.
FromEdgeRecordList ==
    /\ pc = "ready"
    /\ \E value \in RecordLists :
          /\ records' = value
          /\ LET name_weight_tup == NameWeights(CollectRecords(<<>>, value))
             IN  \E order \in IterationOrders(DOMAIN name_weight_tup) :
                    /\ names' = order
                    /\ vertices' = GraphNew([k \in 1..Len(order) |->
                                                name_weight_tup[order[k]]])
    /\ pc' = "built"
    /\ UNCHANGED <<method, result, loopVars, output, overflow_checks, stdout, dp_call>>

ConstructNext ==
    \/ FromBalances
    \/ FromNameBalances
    \/ FromEdgeRecordList

ConstructSpec == ConstructInit /\ [][ConstructNext]_vars

-----------------------------------------------------------------------------
(* probleminstance.rs: solution_string                                     *)

\* get_node_name_or(id, id.to_string()): the name of the first vertex with
\* that id, the id as a string when there is none.
get_node_name_or(vs, ns, id) ==
    LET hits == {k \in 1..Len(vs) : vs[k].id = id}
    IN  IF hits = {} THEN IdToString(id)
        ELSE ns[CHOOSE k \in hits : \A l \in hits : k <= l]

\* A faulty line: the first component of the edge is printed first.
SolutionLineFirstPays(vs, ns, e) ==
    LET u == get_node_name_or(vs, ns, e.u)
        v == get_node_name_or(vs, ns, e.v)
    IN  IF e.w >= 0 THEN [first |-> u, second |-> v, amount |-> e.w]
        ELSE [first |-> v, second |-> u, amount |-> 0 - e.w]

\* One line of the listing, format!("{:?} to {:?}: {:?}", first, second,
\* amount): v to u with the weight when the weight is >= 0, u to v with the
\* negated weight otherwise.
SolutionLine(vs, ns, e) ==
    LET u == get_node_name_or(vs, ns, e.u)
        v == get_node_name_or(vs, ns, e.v)
    IN  IF e.w >= 0 THEN [first |-> v, second |-> u, amount |-> e.w]
        ELSE [first |-> u, second |-> v, amount |-> 0 - e.w]

\* A faulty formatter result: an empty listing instead of the error.
EmptyListing == [kind |-> "Ok", message |-> "", nodes |-> <<>>, lines |-> <<>>]

\* Err("No result was found."): an error message and no listing.
NoResultFound ==
    [kind |-> "Err", message |-> "No result was found.", nodes |-> <<>>, lines |-> <<>>]

\* The formatter's result with the OutputFormat that produced it.
Formatted(format, r) ==
    [format |-> format, kind |-> r.kind, message |-> r.message,
     nodes |-> r.nodes, lines |-> r.lines]

\* solution_string(solution): the lines in the order the HashMap is
\* iterated, which the program does not control.
SolutionString ==
    /\ pc = "done"
    /\ result.kind \in {"none", "some"}
    /\ IF result.kind = "none"
       THEN output' = Formatted("Transactions", NoResultFound)
       ELSE \E order \in IterationOrders(result.edges) :
               output' = Formatted("Transactions",
                            [kind |-> "Ok", message |-> "", nodes |-> <<>>,
                             lines |-> [k \in 1..Len(order) |->
                                           SolutionLine(vertices, names, order[k])]])
    /\ pc' = "printed"
    /\ UNCHANGED <<vertices, names, records, method, result, loopVars,
                   overflow_checks, stdout, dp_call>>

\* pet_graph.update_edge(v, u, w): an arrow from the node of edge.v to the
\* node of edge.u, labelled with the weight.  Every id of a solution is the
\* id of a vertex, so neither lookup fails.
DotEdge(vs, ns, e) ==
    [first |-> get_node_name_or(vs, ns, e.v),
     second |-> get_node_name_or(vs, ns, e.u),
     amount |-> e.w]

\* solution_to_dot_string(solution): for None the message is printed and
\* returned as the error; otherwise the graph with one node per vertex and
\* the solution's edges, added in the order the HashMap is iterated.
SolutionToDotString ==
    /\ pc = "done"
    /\ result.kind \in {"none", "some"}
    /\ IF result.kind = "none"
       THEN /\ output' = Formatted("Dot", NoResultFound)
            /\ stdout' = Append(stdout, "No result was found.")
       ELSE /\ \E order \in IterationOrders(result.edges) :
                  output' = Formatted("Dot",
                               [kind |-> "Ok", message |-> "",
                                nodes |-> [k \in 1..Len(vertices) |-> names[k]],
                                lines |-> [k \in 1..Len(order) |->
                                              DotEdge(vertices, names, order[k])]])
            /\ UNCHANGED stdout
    /\ pc' = "printed"
    /\ UNCHANGED <<vertices, names, records, method, result, loopVars,
                   overflow_checks, dp_call>>

\* solve_with followed by the formatter main selects for what it returned.
PrintNext ==
    \/ Next
    \/ SolutionString
    \/ SolutionToDotString

PrintSpec == Init /\ [][PrintNext]_vars

-----------------------------------------------------------------------------
(* patcas_dp on wide instances, up to the call of dp                       *)

\* l creditors owed r each, then r debtors owing l each: a solvable graph
\* with l + r nonzero balances.
Balanced(l, r) ==
    GraphNew([k \in 1..(l + r) |-> IF k <= l THEN r ELSE 0 - l])

\* The names are not read by patcas_dp and are not carried here.
WideInit ==
    /\ vertices \in {Balanced(l, r) : l \in 1..MaxSide, r \in 1..MaxSide}
    /\ overflow_checks \in BOOLEAN
    /\ names = <<>>
    /\ records = <<>>
    /\ method = "unset"
    /\ result = Pending
    /\ pc = "ready"
    /\ neg_vertices = <<>>
    /\ pos_vertices = <<>>
    /\ side_capacities = 0
    /\ sol = {}
    /\ output = NoOutput
    /\ stdout = <<>>
    /\ dp_call = NoCall

\* patcas_dp from its entry to the call dp(n_left, n_right, ..) (lines
\* 33-57): it returns None, panics in expand_number, or enters dp.  The
\* search dp then runs over masks of this width is not enumerated.
PatcasDpMasks ==
    /\ pc = "ready"
    /\ \E m \in {"DPStarExpand", "DPGreedySatisfaction"} : method' = m
    /\ IF ~is_solvable(vertices)
       THEN result' = None /\ pc' = "done"
       ELSE IF PatcasMasks(vertices, overflow_checks) = "panics"
       THEN result' = Panics /\ pc' = "done"
       ELSE result' = Pending /\ pc' = "dp"
    /\ UNCHANGED <<ioVars, vertices, loopVars>>

WideNext == PatcasDpMasks

WideSpec == WideInit /\ [][WideNext]_vars

-----------------------------------------------------------------------------
(* What the claims speak of                                                *)

RECURSIVE SumAmounts(_)
SumAmounts(es) ==
    IF es = {} THEN 0
    ELSE LET t == CHOOSE x \in es : TRUE IN t.w + SumAmounts(es \ {t})

\* The net of participant id when Edge{u, v} with amount w is read as
\* "payer u transfers w to payee v": received minus sent.
NetPayerPayee(es, id) ==
    SumAmounts({t \in es : t.v = id}) - SumAmounts({t \in es : t.u = id})

\* The net of participant id when the amount is credited to Edge.u and
\* debited from Edge.v, the direction solution_string prints.
NetCreditFirst(es, id) ==
    SumAmounts({t \in es : t.u = id}) - SumAmounts({t \in es : t.v = id})

Done == pc = "done"
ZeroSum == SumWeights(vertices) = 0
NonEmpty == Len(vertices) > 0
Returned == result.kind = "some"
EdgeCount == Cardinality(result.edges)

ApproxOf(m) ==
    IF m \in {"ApproxStarExpand", "PartitioningStarExpand",
               "BranchingPartitionStarExpand", "DPStarExpand"}
    THEN "star_expand" ELSE "greedy_satisfaction"

\* Positions of the participants with nonzero balance.
NonZeroIdx(vs) == {k \in 1..Len(vs) : vs[k].weight # 0}

RECURSIVE SumAt(_, _)
SumAt(vs, S) ==
    IF S = {} THEN 0
    ELSE LET k == CHOOSE x \in S : TRUE IN vs[k].weight + SumAt(vs, S \ {k})

Min(S) == CHOOSE x \in S : \A y \in S : x <= y
Max(S) == CHOOSE x \in S : \A y \in S : x >= y

RECURSIVE MaxBlocks(_, _)
\* The greatest number of nonempty, pairwise-disjoint zero-sum subsets that
\* partition the positions S of vs; -1 when S has no such partition.
MaxBlocks(vs, S) ==
    IF S = {} THEN 0
    ELSE LET first == Min(S)
             rest == {MaxBlocks(vs, S \ T) :
                        T \in {X \in SUBSET S : first \in X /\ SumAt(vs, X) = 0}}
             ok == {r \in rest : r >= 0}
         IN  IF ok = {} THEN 0 - 1 ELSE 1 + Max(ok)

\* What a solver call came to: its kind and, for a solution, its edge count.
Outcome(r) == [kind |-> r.kind, n |-> Cardinality(r.edges)]

IdsOf(block) == {block[k].id : k \in 1..Len(block)}

BlockSolvers ==
    {"BranchingPartitionStarExpand", "BranchingPartitionGreedySatisfaction",
     "DPStarExpand", "DPGreedySatisfaction"}

\* The blocks best_partition and patcas_dp map the approximation over.
BlocksHanded(m, vs) ==
    IF m \in {"BranchingPartitionStarExpand", "BranchingPartitionGreedySatisfaction"}
    THEN best_partition_rec(vs)
    ELSE DpPartition(NonZeroOf(vs))

\* The partitioning whose per-block solutions an exact solver merges: the
\* first one find_map accepts, or the blocks of best_partition and patcas_dp.
BlocksMerged(m, vs) ==
    IF m \in BlockSolvers THEN BlocksHanded(m, vs)
    ELSE LET ps == SortByBlocksDesc(collect_all_partitionigns(vs), Len(vs))
             hits == {k \in 1..Len(ps) : partition_solver(ps[k], ApproxOf(m)).kind # "none"}
         IN  ps[CHOOSE k \in hits : \A l \in hits : k <= l]

ExactSolvers ==
    BlockSolvers \cup {"PartitioningStarExpand", "PartitioningGreedySatisfaction"}

\* The keys of a solution map.
Keys(m) == {<<t.u, t.v>> : t \in m}

RECURSIVE SumCards(_)
SumCards(ms) == IF ms = <<>> THEN 0 ELSE Cardinality(Head(ms)) + SumCards(Tail(ms))

\* The positions of weights the masks i and j select.
MaskPositions(i, j) ==
    {one_indices(i)[k] + 1 : k \in 1..Len(one_indices(i))}
        \cup {one_indices(j)[k] + 1 : k \in 1..Len(one_indices(j))}

\* |i| + |j| - (the most zero-sum blocks the selected weights can be packed into)
MinTransfers(i, j, weights) ==
    count_ones(i) + count_ones(j) - MaxBlocks(GraphNew(weights), MaskPositions(i, j))

\* weight(i) = -weight(j)
Cancel(i, j, weights) == number_weight(i, weights) = 0 - number_weight(j, weights)

\* A partitioning as the set of its blocks' ids.
AsSets(p) == {IdsOf(p[k]) : k \in 1..Len(p)}

\* Nonempty, pairwise-disjoint blocks without repeated items that together
\* hold every item of vs.
IsSetPartition(p, vs) ==
    /\ \A k \in 1..Len(p) : Len(p[k]) > 0 /\ Cardinality(IdsOf(p[k])) = Len(p[k])
    /\ \A k, l \in 1..Len(p) : k # l => IdsOf(p[k]) \cap IdsOf(p[l]) = {}
    /\ UNION AsSets(p) = IdsOf(vs)

RECURSIVE Binomial(_, _)
Binomial(n, k) ==
    IF k = 0 \/ k = n THEN 1 ELSE Binomial(n - 1, k - 1) + Binomial(n - 1, k)

RECURSIVE BellSum(_, _)
RECURSIVE Bell(_)
\* The number of set partitions of n items: B(n) = sum of C(n-1, k) B(k).
Bell(n) == IF n = 0 THEN 1 ELSE BellSum(n - 1, n - 1)
BellSum(n, k) ==
    Binomial(n, k) * Bell(k) + (IF k = 0 THEN 0 ELSE BellSum(n, k - 1))

\* The bit positions of a mask.
BitsOf(mask) == {one_indices(mask)[k] : k \in 1..Len(one_indices(mask))}

\* The root masks (U_L, U_R) of patcas_dp on vs.
RootLeft(vs) == expand_number(LeftIndices(NonZeroOf(vs)))
RootRight(vs) == expand_number(RightIndices(NonZeroOf(vs)))

\* What dp returned for the root.
RootValue(vs) ==
    dp(RootLeft(vs), RootRight(vs), WeightsOf(NonZeroOf(vs)), EmptyTable).value

\* solve_with(m) on the graph vs, as a value.
SolveWith(m, vs) ==
    IF m = "ApproxStarExpand" THEN star_expand(vs)
    ELSE IF m = "ApproxGreedySatisfaction" THEN greedy_satisfaction(vs)
    ELSE IF m \in {"PartitioningStarExpand", "PartitioningGreedySatisfaction"}
    THEN naive_all_partitioning(vs, ApproxOf(m))
    ELSE IF m \in {"BranchingPartitionStarExpand", "BranchingPartitionGreedySatisfaction"}
    THEN best_partition(vs, ApproxOf(m))
    ELSE patcas_dp(vs, ApproxOf(m))

\* The graph of the same balances with those at positions k and k + 1
\* exchanged.
Swapped(vs, k) ==
    GraphNew([p \in 1..Len(vs) |->
                 IF p = k THEN vs[k + 1].weight
                 ELSE IF p = k + 1 THEN vs[k].weight
                 ELSE vs[p].weight])

-----------------------------------------------------------------------------
(* The claims                                                              *)

Settles(net(_, _)) ==
    \A k \in 1..Len(vertices) : net(result.edges, vertices[k].id) = vertices[k].weight

\* C1: for every solving method and every nonempty input whose balances sum
\* to zero, the returned solution gives every participant v
\* (amounts received by v) - (amounts sent by v) = balance(v).  The claim
\* reads Edge{u, v} as payer u, payee v; the formula also accepts the
\* direction solution_string prints (v pays u), so that it fails only where
\* the solution settles the balances in neither reading.
C1_SolutionSettlesBalances ==
    (Done /\ NonEmpty /\ ZeroSum /\ Returned)
        => (Settles(NetPayerPayee) \/ Settles(NetCreditFirst))

\* C2: with the same approximation as block solver, naive_all_partitioning,
\* best_partition and patcas_dp return solutions with the same number of
\* edges, or all three return none.  Stated for greedy_satisfaction on a
\* nonempty graph, in the states where best_partition has returned.
C2_ExactSolversAgree ==
    (Done /\ NonEmpty /\ method = "BranchingPartitionGreedySatisfaction")
        => LET n == Outcome(naive_all_partitioning(vertices, "greedy_satisfaction"))
               d == Outcome(patcas_dp(vertices, "greedy_satisfaction"))
               b == Outcome(result)
           IN  n = b /\ d = b /\ b.kind \in {"some", "none"}

\* C3: on an input whose balances do not sum to zero, each of the eight
\* solving methods returns none.
C3_UnsolvableReturnsNone ==
    (Done /\ ~ZeroSum) => result.kind = "none"

\* C4: on a solvable input with n nonzero-balance participants patcas_dp
\* returns a solution with exactly n - k edges, k the greatest number of
\* zero-sum blocks the nonzero-balance participants can be partitioned into.
C4_DpEdgeCount ==
    (Done /\ NonEmpty /\ ZeroSum /\ method \in {"DPStarExpand", "DPGreedySatisfaction"})
        => /\ Returned
           /\ EdgeCount = Cardinality(NonZeroIdx(vertices))
                              - MaxBlocks(vertices, NonZeroIdx(vertices))

\* C5: on a solvable input the blocks returned by best_partition_rec are a
\* maximum zero-sum packing: nonempty, each summing to zero, pairwise
\* disjoint, covering every nonzero-balance participant, and as many as any
\* partition of the nonzero-balance participants into zero-sum blocks has.
C5_BranchingMaximumPacking ==
    (Done /\ NonEmpty /\ ZeroSum
          /\ method \in {"BranchingPartitionStarExpand",
                          "BranchingPartitionGreedySatisfaction"})
        => LET bs == best_partition_rec(vertices)
           IN  /\ \A k \in 1..Len(bs) : bs[k] # <<>> /\ SumWeights(bs[k]) = 0
               /\ \A k, l \in 1..Len(bs) :
                      k # l => IdsOf(bs[k]) \cap IdsOf(bs[l]) = {}
               /\ \A x \in NonZeroIdx(vertices) :
                      \E k \in 1..Len(bs) : vertices[x].id \in IdsOf(bs[k])
               /\ Len(bs) = MaxBlocks(vertices, NonZeroIdx(vertices))

\* C6: on a solvable input naive_all_partitioning returns the merged
\* solution of a set partition of the participants that has the greatest
\* number of blocks among the set partitions whose blocks all sum to zero.
C6_NaiveMaximumPartition ==
    (Done /\ NonEmpty /\ ZeroSum
          /\ method \in {"PartitioningStarExpand", "PartitioningGreedySatisfaction"})
        => LET ps == collect_all_partitionigns(vertices)
               best == {k \in 1..Len(ps) :
                          /\ \A x \in 1..Len(ps[k]) : SumWeights(ps[k][x]) = 0
                          /\ Len(ps[k]) = MaxBlocks(vertices, 1..Len(vertices))}
           IN  /\ Returned
               /\ \E k \in best : result = partition_solver(ps[k], ApproxOf(method))

\* C7: on a solvable input every amount of the solution any solving method
\* returns is strictly greater than zero.
C7_AmountsPositive ==
    (Done /\ NonEmpty /\ ZeroSum /\ Returned) => \A e \in result.edges : e.w > 0

\* C8: on a solvable nonempty input star_expand returns a solution that
\* reconstructs the balances: crediting each amount to Edge.u and debiting
\* it from Edge.v gives every participant its balance.
C8_StarExpandReconstructs ==
    (Done /\ NonEmpty /\ ZeroSum /\ method = "ApproxStarExpand")
        => Returned /\ Settles(NetCreditFirst)

\* C9: on a solvable input greedy_satisfaction returns a solution that
\* reconstructs the balances: crediting each amount to Edge.u (the creditor
\* p) and debiting it from Edge.v (the debtor n) gives every participant
\* its balance.
C9_GreedyReconstructs ==
    (Done /\ NonEmpty /\ ZeroSum /\ method = "ApproxGreedySatisfaction")
        => Returned /\ Settles(NetCreditFirst)

\* C10: greedy_satisfaction terminates on every solvable input: the pairing
\* loop reaches a state where a list is empty, and the call returns.
C10_GreedyTerminates ==
    is_solvable(vertices) => <>(pc = "done")

\* The star the hub h (an index of vertices) should get: one edge from each
\* other participant with a positive balance, one edge to each other
\* participant with a negative balance.
ExpectedStar(h) ==
    { [u |-> vertices[k].id, v |-> vertices[h].id, w |-> vertices[k].weight]
        : k \in {x \in 1..Len(vertices) : x # h /\ vertices[x].weight > 0} }
    \cup
    { [u |-> vertices[h].id, v |-> vertices[k].id, w |-> 0 - vertices[k].weight]
        : k \in {x \in 1..Len(vertices) : x # h /\ vertices[x].weight < 0} }

\* C11: on a solvable nonempty graph star_expand terminates, picks as hub a
\* participant with the greatest balance and returns exactly the edges
\* (u -> hub, balance(u)) for every other u with a positive balance and
\* (hub -> u, -balance(u)) for every other u with a negative balance.
C11_StarExpandHub ==
    (Done /\ NonEmpty /\ ZeroSum /\ method = "ApproxStarExpand")
        => /\ Returned
           /\ \E h \in 1..Len(vertices) :
                  /\ \A k \in 1..Len(vertices) : vertices[k].weight <= vertices[h].weight
                  /\ result.edges = ExpectedStar(h)

\* C12: on every solvable input the amounts of the solution returned by
\* greedy_satisfaction sum to sum(|balance|) / 2, the value of
\* optimal_transaction_amount.
C12_GreedyTotalAmount ==
    (Done /\ NonEmpty /\ ZeroSum /\ method = "ApproxGreedySatisfaction")
        => /\ Returned
           /\ SumAmounts(result.edges) = optimal_transaction_amount(vertices)

\* C13: on a zero-sum block star_expand returns exactly (number of
\* participants with nonzero balance) - 1 edges.  Stated for the blocks with
\* at least one nonzero balance, where that number is not negative.
C13_StarExpandEdgeCount ==
    (Done /\ ZeroSum /\ NonZeroIdx(vertices) # {} /\ method = "ApproxStarExpand")
        => /\ Returned
           /\ EdgeCount = Cardinality(NonZeroIdx(vertices)) - 1

\* C14: on a solvable input with n participants the solution of
\* greedy_satisfaction has at most n - 1 edges: the map sol never holds more
\* than n - 1 entries while the loop runs, and the solution returned is sol.
C14_GreedyAtMostNMinusOne ==
    (method = "ApproxGreedySatisfaction" /\ is_solvable(vertices))
        => /\ Cardinality(sol) <= Len(vertices) - 1
           /\ Done => (Returned /\ result.edges = sol)

\* greedy_satisfaction has returned n - 1 edges for n >= 3 participants.
C14_Witness ==
    /\ Done /\ method = "ApproxGreedySatisfaction" /\ Returned
    /\ Len(vertices) >= 3
    /\ EdgeCount = Len(vertices) - 1

\* C15: on every solvable input the number of edges an approximation returns
\* is at most twice the number of edges an exact solver returns on the same
\* input.  Stated for greedy_satisfaction, against naive_all_partitioning and
\* patcas_dp with greedy_satisfaction as block solver.
C15_ApproximationFactorTwo ==
    (Done /\ NonEmpty /\ ZeroSum /\ method = "ApproxGreedySatisfaction" /\ Returned)
        => \A exact \in {naive_all_partitioning(vertices, "greedy_satisfaction"),
                          patcas_dp(vertices, "greedy_satisfaction")} :
              /\ exact.kind = "some"
              /\ EdgeCount <= 2 * Cardinality(exact.edges)

\* The exact solver that method m dispatches to, run on the graph vs.
ExactOf(m, vs) ==
    IF m = "PartitioningGreedySatisfaction"
    THEN naive_all_partitioning(vs, "greedy_satisfaction")
    ELSE IF m = "BranchingPartitionGreedySatisfaction"
    THEN best_partition(vs, "greedy_satisfaction")
    ELSE patcas_dp(vs, "greedy_satisfaction")

\* The graph of the nonzero balances of vertices alone, in their order.
WithoutZeros == GraphNew(WeightsOf(NonZeroOf(vertices)))

\* C16: the exact solvers ignore zero-balance participants: on a solvable
\* input, an input with zero-balance participants added gets as many edges
\* as the input without them, and no returned edge touches a zero-balance
\* participant.  Stated with greedy_satisfaction as block solver.
C16_ZeroBalanceIgnored ==
    (Done /\ ZeroSum /\ NonZeroIdx(vertices) # {}
          /\ NonZeroIdx(vertices) # 1..Len(vertices)
          /\ method \in {"PartitioningGreedySatisfaction",
                          "BranchingPartitionGreedySatisfaction",
                          "DPGreedySatisfaction"})
        => /\ Returned
           /\ Outcome(result) = Outcome(ExactOf(method, WithoutZeros))
           /\ \A e \in result.edges, k \in 1..Len(vertices) :
                  vertices[k].weight = 0 => (e.u # vertices[k].id /\ e.v # vertices[k].id)

\* C17: no solution returned by any solving method contains a self-loop:
\* the two components of every edge are different participants.  For
\* star_expand the same is stated of the map it builds (lines 38-51) around
\* any hub the maximum could yield.
C17_NoSelfLoops ==
    /\ (Done /\ Returned) => \A e \in result.edges : e.u # e.v
    /\ (Done /\ method = "ApproxStarExpand")
          => \A h \in 1..Len(vertices) :
                \A e \in StarEdges(vertices, vertices[h]) : e.u # e.v

\* An exact solver has returned a solution of three or more edges.
C17_Witness ==
    /\ Done /\ Returned
    /\ method \in {"PartitioningGreedySatisfaction", "DPGreedySatisfaction",
                    "BranchingPartitionGreedySatisfaction"}
    /\ EdgeCount >= 3

\* C18: is_solvable returns true if and only if the participants' balances
\* sum to zero, for every graph, the graph with no participants included.
C18_SolvableIffZeroSum ==
    is_solvable(vertices) <=> (SumWeights(vertices) = 0)

\* The sum of the amounts of the records of recs in which x is payee, minus
\* the sum of the amounts of those in which x is payer.
RECURSIVE RecordBalance(_, _)
RecordBalance(recs, x) ==
    IF recs = <<>> THEN 0
    ELSE (IF Head(recs).to = x THEN Head(recs).weight ELSE 0)
           - (IF Head(recs).from = x THEN Head(recs).weight ELSE 0)
           + RecordBalance(Tail(recs), x)

RecordNames == {records[k].from : k \in DOMAIN records}
                 \cup {records[k].to : k \in DOMAIN records}

\* C19: a graph built from a list of (payer, payee, amount) records gives
\* every participant named in the list the balance (sum of the amounts of
\* the records in which it is payee) - (sum of the amounts of the records in
\* which it is payer).
C19_EdgeRecordBalances ==
    (pc = "built")
        => \A x \in RecordNames :
              \E k \in 1..Len(vertices) :
                 names[k] = x /\ vertices[k].weight = RecordBalance(records, x)

Printed == pc = "printed" /\ output.format = "Transactions" /\ output.kind = "Ok"

NameOf(id) == get_node_name_or(vertices, names, id)

\* C20, as amended: for every edge Edge{u, v} with a positive amount a in a
\* solution, solution_string emits the line "name(v)" to "name(u)": a; the
\* second component of the edge is printed as the payer and the first
\* component as the payee.
C20_SecondComponentPays ==
    Printed
        => \A e \in result.edges :
              e.w > 0 => \E k \in 1..Len(output.lines) :
                            output.lines[k] = [first |-> NameOf(e.v),
                                               second |-> NameOf(e.u),
                                               amount |-> e.w]

\* C20, as stated: for every edge Edge{u, v} with a positive amount a in a
\* solution, solution_string emits the line "name(u)" to "name(v)": a; the
\* first component is printed as the payer, the second as the payee.
C20_FirstComponentPays ==
    Printed
        => \A e \in result.edges :
              e.w > 0 => \E k \in 1..Len(output.lines) :
                            output.lines[k] = [first |-> NameOf(e.u),
                                               second |-> NameOf(e.v),
                                               amount |-> e.w]

\* A solution of two or more edges with positive amounts has been printed.
C20_Witness ==
    /\ Printed
    /\ Cardinality({e \in result.edges : e.w > 0}) >= 2

\* C21: patcas_dp invoked on an instance with more than 128 nonzero-balance
\* participants fails fast: it panics before dp is entered and returns no
\* solution.
C21_DpRejectsWideInstances ==
    (method \in {"DPStarExpand", "DPGreedySatisfaction"}
       /\ Len(NonZeroOf(vertices)) > MaskBits)
        => (pc = "done" /\ result = Panics)

\* C22: solution_string and solution_to_dot_string both return the error
\* "No result was found." when given none, and no formatted output.
C22_NoneIsNoResultFound ==
    (pc = "printed" /\ result.kind = "none")
        => /\ output.kind = "Err"
           /\ output.message = "No result was found."
           /\ output.nodes = <<>> /\ output.lines = <<>>

\* A solver returned none on an unsolvable instance and
\* solution_to_dot_string was handed it.
C22_Witness ==
    /\ pc = "printed" /\ result.kind = "none"
    /\ NonEmpty /\ ~ZeroSum
    /\ output.format = "Dot"

\* The names of the built graph are pairwise different.
UniqueNamesBuilt(ns) == \A k, l \in 1..Len(ns) : ns[k] = ns[l] => k = l

\* The ids of the built graph are 0..n-1 in order.
DenseIds(vs) == \A k \in 1..Len(vs) : vs[k].id = k - 1

\* C23: every graph built by a constructor holds at most one participant per
\* name and its participants carry the unique dense ids 0..n-1.
C23_UniqueNamesDenseIds ==
    pc = "built" => UniqueNamesBuilt(names) /\ DenseIds(vertices)

\* C24: in patcas_dp and best_partition every block handed to the
\* approximation is nonempty and sums to zero, so the approximation never
\* returns none on it and unreachable!() is never executed on a solvable input.
C24_BlocksSolvable ==
    (Done /\ method \in BlockSolvers /\ is_solvable(vertices))
        => /\ LET blocks == BlocksHanded(method, vertices)
              IN  \A k \in 1..Len(blocks) :
                     /\ Len(blocks[k]) > 0
                     /\ SumWeights(blocks[k]) = 0
                     /\ approx_solver(ApproxOf(method), blocks[k]).kind # "none"
           /\ result.kind # "panics"

\* best_partition handed two blocks to greedy_satisfaction and merged what
\* it returned.
C24_Witness ==
    /\ Done /\ method = "BranchingPartitionGreedySatisfaction"
    /\ is_solvable(vertices)
    /\ Len(BlocksHanded(method, vertices)) = 2
    /\ Returned

\* C25: when an exact solver merges the per-block solutions, their edge sets
\* are pairwise disjoint: no edge key is inserted twice and the merged
\* solution has as many edges as the per-block solutions together.
C25_BlockEdgesDisjoint ==
    (Done /\ method \in ExactSolvers /\ Returned)
        => LET blocks == BlocksMerged(method, vertices)
               sols == [k \in 1..Len(blocks) |->
                           approx_solver(ApproxOf(method), blocks[k]).edges]
           IN  /\ \A k, l \in 1..Len(sols) :
                      k # l => Keys(sols[k]) \cap Keys(sols[l]) = {}
               /\ EdgeCount = SumCards(sols)

\* C26 as stated: after dp(i, j) on two disjoint masks whose weights cancel
\* the table entry for (i, j) holds |i| + |j| - (the maximum number of
\* zero-sum blocks i union j can be packed into).
C26_DpEntryAnyMasks ==
    (pc = "dp" /\ Cancel(dp_call.i, dp_call.j, dp_call.weights))
        => /\ <<dp_call.i, dp_call.j>> \in DOMAIN dp_call.table
           /\ dp_call.table[<<dp_call.i, dp_call.j>>].x
                  = MinTransfers(dp_call.i, dp_call.j, dp_call.weights)

\* C26: after dp(i, j) on two disjoint masks, not both empty, whose weights
\* cancel, the table entry for (i, j), like every entry the call recorded,
\* holds |i| + |j| - (the maximum number of zero-sum blocks i union j can be
\* packed into); on two empty masks dp returns 0 and records nothing.
C26_DpEntryMinTransfers ==
    (pc = "dp" /\ Cancel(dp_call.i, dp_call.j, dp_call.weights))
        => /\ dp_call.value.some
           /\ dp_call.value.x = MinTransfers(dp_call.i, dp_call.j, dp_call.weights)
           /\ IF dp_call.i = 0 /\ dp_call.j = 0
              THEN dp_call.table = EmptyTable
              ELSE <<dp_call.i, dp_call.j>> \in DOMAIN dp_call.table
           /\ \A e \in DOMAIN dp_call.table :
                  dp_call.table[e].x = MinTransfers(e[1], e[2], dp_call.weights)

\* dp was called as in test_dp: weights [2, 1, -1, -2], i = 0b1100,
\* j = 0b0011, and recorded 2 for (i, j).
C26_Witness ==
    /\ pc = "dp"
    /\ dp_call.weights = <<2, 1, -1, -2>>
    /\ dp_call.i = 12 /\ dp_call.j = 3
    /\ dp_call.table[<<12, 3>>].x = 2

\* C27: collect_all_partitionigns on n distinct items yields every set
\* partition of the items exactly once: Bell(n) results, pairwise different,
\* each a family of nonempty, pairwise-disjoint blocks holding every item.
C27_AllPartitionsOnce ==
    (Done /\ method \in {"PartitioningStarExpand", "PartitioningGreedySatisfaction"})
        => LET ps == collect_all_partitionigns(vertices)
           IN  /\ Len(ps) = Bell(Len(vertices))
               /\ \A k \in 1..Len(ps) : IsSetPartition(ps[k], vertices)
               /\ \A k, l \in 1..Len(ps) : k # l => AsSets(ps[k]) # AsSets(ps[l])

\* naive_all_partitioning enumerated the 15 partitionings of four items.
C27_Witness ==
    /\ Done /\ method = "PartitioningGreedySatisfaction"
    /\ Len(vertices) = 4
    /\ Len(collect_all_partitionigns(vertices)) = 15
    /\ Bell(3) = 5 /\ Bell(4) = 15

\* C28: for every solvable input, after dp has filled the table, every
\* recorded split (a, b) of an entry (i, j) has entries for (a, b) and for
\* (i xor a, j xor b), table_extract_partitioning from the root never meets a
\* missing entry, and it returns pairwise-disjoint zero-sum blocks whose union
\* is the nonzero-balance participants and whose number is their number minus
\* the root value.
C28_ExtractionComplete ==
    (Done /\ method \in {"DPStarExpand", "DPGreedySatisfaction"} /\ is_solvable(vertices))
        => LET nz == NonZeroOf(vertices)
               weights == WeightsOf(nz)
               table == DpTable(nz)
               blocks == table_extract_partitioning(RootLeft(vertices),
                             RootRight(vertices), table)
           IN  /\ \A e \in DOMAIN table :
                      table[e].split.some
                          => /\ <<table[e].split.a, table[e].split.b>> \in DOMAIN table
                             /\ <<BitXor(e[1], table[e].split.a),
                                   BitXor(e[2], table[e].split.b)>> \in DOMAIN table
               /\ ~table_extract_misses(RootLeft(vertices), RootRight(vertices), table)
               /\ \A k \in 1..Len(blocks) : number_weight(blocks[k], weights) = 0
               /\ \A k, l \in 1..Len(blocks) :
                      k # l => BitsOf(blocks[k]) \cap BitsOf(blocks[l]) = {}
               /\ UNION {BitsOf(blocks[k]) : k \in 1..Len(blocks)} = 0..(Len(nz) - 1)
               /\ RootValue(vertices).some
               /\ Len(blocks) = Len(nz) - RootValue(vertices).x

\* patcas_dp extracted two or more blocks through a recorded split of the
\* root, next to a zero-balance participant.
C28_Witness ==
    /\ Done /\ method = "DPGreedySatisfaction" /\ is_solvable(vertices)
    /\ Len(NonZeroOf(vertices)) < Len(vertices)
    /\ Len(DpPartition(NonZeroOf(vertices))) >= 2
    /\ DpTable(NonZeroOf(vertices))[<<RootLeft(vertices), RootRight(vertices)>>].split.some

\* C29: the number of edges an exact solver returns does not depend on the
\* order of the participants.  Stated for the exchange of two neighbours,
\* which generate every permutation: the solver returns on the exchanged list
\* as it did on the list, with the same number of edges.
C29_OrderIndependentEdgeCount ==
    (Done /\ method \in ExactSolvers /\ Returned)
        => \A k \in 1..(Len(vertices) - 1) :
              Outcome(SolveWith(method, Swapped(vertices, k))) = Outcome(result)

\* C30: for every input graph, the empty graph and the all-zero graphs
\* included, all eight solving methods agree on the kind of result: every
\* method returns none or every method returns a solution.
C30_MethodsAgreeOnKind ==
    Done => \/ \A m \in SolvingMethods : SolveWith(m, vertices).kind = "none"
            \/ \A m \in SolvingMethods : SolveWith(m, vertices).kind = "some"

-----------------------------------------------------------------------------
(* What the solvers do guarantee within the bounds                         *)

\* Every method other than naive partitioning with star_expand returns none
\* on an input whose balances do not sum to zero.
UnsolvableNoneUnlessNaiveStar ==
    (Done /\ ~ZeroSum /\ method # "PartitioningStarExpand") => result.kind = "none"

\* With greedy_satisfaction as block solver patcas_dp returns n - k edges.
DpGreedyEdgeCount ==
    (Done /\ NonEmpty /\ ZeroSum /\ method = "DPGreedySatisfaction")
        => /\ Returned
           /\ EdgeCount = Cardinality(NonZeroIdx(vertices))
                              - MaxBlocks(vertices, NonZeroIdx(vertices))

\* With greedy_satisfaction as block solver naive_all_partitioning returns
\* as many edges as patcas_dp.
NaiveGreedyEdgeCount ==
    (Done /\ NonEmpty /\ ZeroSum /\ method = "PartitioningGreedySatisfaction")
        => Outcome(result) = Outcome(patcas_dp(vertices, "greedy_satisfaction"))

\* Without zero balances greedy_satisfaction stays within twice the optimum
\* n - k whenever it returns.
GreedyFactorTwoWithoutZeros ==
    (Done /\ NonEmpty /\ ZeroSum /\ method = "ApproxGreedySatisfaction" /\ Returned
          /\ NonZeroIdx(vertices) = 1..Len(vertices))
        => EdgeCount <= 2 * (Len(vertices) - MaxBlocks(vertices, 1..Len(vertices)))

\* naive_all_partitioning and patcas_dp with greedy_satisfaction ignore the
\* zero-balance participants.
ZeroBalanceIgnoredByNaiveAndDp ==
    (Done /\ ZeroSum /\ NonZeroIdx(vertices) # {}
          /\ method \in {"PartitioningGreedySatisfaction", "DPGreedySatisfaction"})
        => /\ Returned
           /\ Outcome(result) = Outcome(ExactOf(method, WithoutZeros))
           /\ \A e \in result.edges, k \in 1..Len(vertices) :
                  vertices[k].weight = 0 => (e.u # vertices[k].id /\ e.v # vertices[k].id)

\* On a graph with at least one participant is_solvable is the zero-sum test.
SolvableIffZeroSumNonEmpty ==
    NonEmpty => (is_solvable(vertices) <=> (SumWeights(vertices) = 0))

\* A list of records with pairwise different (payer, payee) keys is reduced
\* to the net balances, one participant per name.
EdgeRecordBalancesDistinctKeys ==
    (pc = "built"
       /\ \A i, j \in DOMAIN records :
             (records[i].from = records[j].from /\ records[i].to = records[j].to) => i = j)
        => /\ Len(vertices) = Cardinality(RecordNames)
           /\ \A x \in RecordNames :
                 \E k \in 1..Len(vertices) :
                    names[k] = x /\ vertices[k].weight = RecordBalance(records, x)

\* Where overflows are checked, or where one side alone has more than 128
\* participants, patcas_dp panics on more than 128 nonzero balances; and it
\* panics on no instance of at most 128.
DpRejectsWideWhenChecked ==
    (method \in {"DPStarExpand", "DPGreedySatisfaction"})
        => LET nz == NonZeroOf(vertices)
           IN  /\ (Len(nz) > MaskBits
                     /\ (overflow_checks \/ Len(LeftIndices(nz)) > MaskBits
                                         \/ Len(RightIndices(nz)) > MaskBits))
                    => (pc = "done" /\ result = Panics)
               /\ Len(nz) <= MaskBits => pc = "dp"

\* Every constructor assigns the dense ids 0..n-1.
ConstructedIdsDense == pc = "built" => DenseIds(vertices)

\* The constructors from balances and from edge records give every
\* participant a name of its own.
ConstructedNamesUniqueUnlessNameList ==
    [][(FromBalances \/ FromEdgeRecordList) => UniqueNamesBuilt(names')]_vars

\* The per-block solutions naive_all_partitioning and patcas_dp merge share
\* no edge key, and the merged solution has all their edges.
BlockEdgesDisjointNaiveAndDp ==
    (Done /\ Returned
          /\ method \in {"PartitioningStarExpand", "PartitioningGreedySatisfaction",
                         "DPStarExpand", "DPGreedySatisfaction"})
        => LET blocks == BlocksMerged(method, vertices)
               sols == [k \in 1..Len(blocks) |->
                           approx_solver(ApproxOf(method), blocks[k]).edges]
           IN  /\ \A k, l \in 1..Len(sols) :
                      k # l => Keys(sols[k]) \cap Keys(sols[l]) = {}
               /\ EdgeCount = SumCards(sols)

\* naive_all_partitioning and patcas_dp with greedy_satisfaction return the
\* same number of edges, or none alike, when two neighbours are exchanged.
OrderIndependentNaiveAndDp ==
    (Done /\ method \in {"PartitioningGreedySatisfaction", "DPGreedySatisfaction"})
        => \A k \in 1..(Len(vertices) - 1) :
              Outcome(SolveWith(method, Swapped(vertices, k))) = Outcome(result)

\* On a graph with participants the four methods that settle with
\* greedy_satisfaction agree with the method that ran whenever they return.
GreedyMethodsAgreeOnKindNonEmpty ==
    (Done /\ NonEmpty /\ ApproxOf(method) = "greedy_satisfaction"
          /\ result.kind \in {"none", "some"})
        => \A m \in SolvingMethods :
              (ApproxOf(m) = "greedy_satisfaction"
                  /\ SolveWith(m, vertices).kind \in {"none", "some"})
                  => SolveWith(m, vertices).kind = result.kind

\* star_expand returns only on an unsolvable graph or on a single vertex.
StarExpandReturnsOnlyTrivially ==
    (Done /\ method = "ApproxStarExpand" /\ result.kind # "diverges")
        => (~is_solvable(vertices) \/ Len(vertices) = 1)

====
